---- MODULE Spec2Model ----
(***************************************************************************)
(* Model of the drake-tutorials example programs.  Every example is one     *)
(* main() that performs a fixed sequence of calls into the external         *)
(* library.  Each main is written down as the sequence of its statements    *)
(* (one record per source statement, carrying the source line), and the     *)
(* actions below execute one statement at a time.  Everything the external  *)
(* library decides (the outcome of Solve, whether a call returns, what the   *)
(* user does in the meshcat window) is a nondeterministic choice.            *)
(***************************************************************************)
EXTENDS Integers, Sequences, FiniteSets

\* ---------------------------------------------------------------- bounds
MaxLen == 2      \* longest command-line argument (characters before NUL)
MaxArgc == 3     \* largest argc explored
MaxIter == 2     \* most solver iterations that invoke the callback
MaxToggle == 2   \* most checkbox clicks by the user during Run
GridMax == 2     \* the grid of points is (-GridMax..GridMax)^2

\* ------------------------------------------------- symbolic expressions
\* drake::symbolic expressions as the sources build them with operators.
V(i) == <<"var", i>>
N(c) == <<"num", c>>
Add(a, b) == <<"add", a, b>>
Sub(a, b) == <<"sub", a, b>>
Mul(a, b) == <<"mul", a, b>>
Pow(a, n) == <<"pow", a, n>>
Rel(r, a, b) == <<r, a, b>>

RECURSIVE IntPow(_, _)
IntPow(b, n) == IF n = 0 THEN 1 ELSE b * IntPow(b, n - 1)

\* Value of an expression at a point; pt[i + 1] is the value of x(i).
RECURSIVE Eval(_, _)
Eval(e, pt) ==
  CASE e[1] = "var" -> pt[e[2] + 1]
    [] e[1] = "num" -> e[2]
    [] e[1] = "add" -> Eval(e[2], pt) + Eval(e[3], pt)
    [] e[1] = "sub" -> Eval(e[2], pt) - Eval(e[3], pt)
    [] e[1] = "mul" -> Eval(e[2], pt) * Eval(e[3], pt)
    [] e[1] = "pow" -> IntPow(Eval(e[2], pt), e[3])

\* Truth of a relational formula at a point.
Holds(f, pt) ==
  CASE f[1] = "==" -> Eval(f[2], pt) = Eval(f[3], pt)
    [] f[1] = "<=" -> Eval(f[2], pt) <= Eval(f[3], pt)
    [] f[1] = ">=" -> Eval(f[2], pt) >= Eval(f[3], pt)

\* ------------------------------------------------------ statement forms
S_Call(l, n) == [op |-> "call", name |-> n, arg |-> <<>>, line |-> l]
S_NewVars(l, n) == [op |-> "newvars", name |-> "NewContinuousVariables", arg |-> n, line |-> l]
S_Constraint(l, f) == [op |-> "constraint", name |-> "AddConstraint", arg |-> f, line |-> l]
S_Cost(l, e) == [op |-> "cost", name |-> "AddCost", arg |-> e, line |-> l]
S_Callback(l, f) == [op |-> "callback", name |-> "AddVisualizationCallback", arg |-> f, line |-> l]
S_Print(l, items) == [op |-> "print", name |-> "print", arg |-> items, line |-> l]
S_Solve(l, n) == [op |-> "solve", name |-> n, arg |-> <<>>, line |-> l]
S_Return(l, c) == [op |-> "return", name |-> "return", arg |-> c, line |-> l]
S_EndOfMain(l) == [op |-> "end", name |-> "end", arg |-> 0, line |-> l]
S_Initialize(l) == [op |-> "initialize", name |-> "Initialize", arg |-> <<>>, line |-> l]
S_AdvanceTo(l, t) == [op |-> "advance", name |-> "AdvanceTo", arg |-> t, line |-> l]
S_Fopen(l, h) == [op |-> "fopen", name |-> "fopen", arg |-> h, line |-> l]
S_UseFile(l, n, h) == [op |-> "usefile", name |-> n, arg |-> h, line |-> l]
S_CheckArgc(l) == [op |-> "checkargc", name |-> "if", arg |-> <<>>, line |-> l]
S_CallInspector(l) == [op |-> "inspect", name |-> "model_inspector", arg |-> <<>>, line |-> l]
S_AddModel(l) == [op |-> "addmodel", name |-> "AddModelFromFile", arg |-> <<>>, line |-> l]
S_AddVisualizer(l, p) == [op |-> "visualizer", name |-> "AddToBuilder", arg |-> p, line |-> l]
S_SetProperty(l, path, prop, v) ==
  [op |-> "setprop", name |-> "SetProperty", arg |-> <<path, prop, v>>, line |-> l]
S_Run(l) == [op |-> "run", name |-> "Run", arg |-> <<>>, line |-> l]
S_InspectorEnd(l) == [op |-> "inspectend", name |-> "model_inspector", arg |-> <<>>, line |-> l]

\* print arguments: a string literal, a program object, or a result accessor
Lit(s) == <<"lit", s>>
Sym(s) == <<"sym", s>>
Res(s) == <<"res", s>>

\* ------------------------------------------- mathematical_program mains
basics_main == <<
  S_Call(6, "MathematicalProgram"),
  S_NewVars(7, 2),
  S_Print(9, <<Sym("x")>>),
  S_Print(10, <<Sym("1 + 2 * x[0] + 3 * x[1] + 4 * x[1]")>>),
  S_NewVars(12, 2),
  S_Print(13, <<Sym("y")>>),
  S_Print(14, <<Sym("y[0] + y[0] + y[1] * y[1] * y[1]")>>),
  S_NewVars(16, 6),
  S_Print(17, <<Sym("var_matrix")>>),
  S_Return(19, 0) >>

add_callback_main == <<
  S_Call(16, "MathematicalProgram"),
  S_NewVars(17, 2),
  S_Constraint(18, Rel("==", Mul(V(0), V(1)), N(9))),
  S_Cost(19, Add(Pow(V(0), 2), Pow(V(1), 2))),
  S_Callback(20, "update"),
  S_Solve(24, "Solve"),
  S_Return(25, 0) >>

\* A plausible slip: the inequality written the other way round.
simple_optimization_problem_feasible_main_Swapped == <<
  S_Call(19, "MathematicalProgram"),
  S_NewVars(20, 2),
  S_Print(21, <<Lit("x = "), Sym("x")>>),
  S_Constraint(22, Rel("==", Add(V(0), V(1)), N(1))),
  S_Print(23, <<Lit("constraint1: "), Sym("constraint1")>>),
  S_Constraint(24, Rel("<=", V(1), V(0))),
  S_Print(25, <<Lit("constraint2: "), Sym("constraint2")>>),
  S_Cost(26, Add(Pow(V(0), 2), Pow(V(1), 2))),
  S_Print(27, <<Lit("cost1: "), Sym("cost1")>>),
  S_Solve(30, "Solve"),
  S_Print(33, <<Lit("Success: "), Res("is_success")>>),
  S_Print(35, <<Lit("x* = "), Res("GetSolution")>>),
  S_Print(37, <<Lit("optimal cost = "), Res("get_optimal_cost")>>),
  S_Print(39, <<Lit("solver is: "), Res("get_solver_id")>>),
  S_Return(40, 0) >>

simple_optimization_problem_feasible_main == <<
  S_Call(19, "MathematicalProgram"),
  S_NewVars(20, 2),
  S_Print(21, <<Lit("x = "), Sym("x")>>),
  S_Constraint(22, Rel("==", Add(V(0), V(1)), N(1))),
  S_Print(23, <<Lit("constraint1: "), Sym("constraint1")>>),
  S_Constraint(24, Rel("<=", V(0), V(1))),
  S_Print(25, <<Lit("constraint2: "), Sym("constraint2")>>),
  S_Cost(26, Add(Pow(V(0), 2), Pow(V(1), 2))),
  S_Print(27, <<Lit("cost1: "), Sym("cost1")>>),
  S_Solve(30, "Solve"),
  S_Print(33, <<Lit("Success: "), Res("is_success")>>),
  S_Print(35, <<Lit("x* = "), Res("GetSolution")>>),
  S_Print(37, <<Lit("optimal cost = "), Res("get_optimal_cost")>>),
  S_Print(39, <<Lit("solver is: "), Res("get_solver_id")>>),
  S_Return(40, 0) >>

simple_optimization_problem_infeasible_main == <<
  S_Call(12, "MathematicalProgram"),
  S_NewVars(13, 1),
  S_Print(14, <<Lit("x = "), Sym("x")>>),
  S_NewVars(15, 1),
  S_Print(16, <<Lit("y = "), Sym("y")>>),
  S_Constraint(17, Rel(">=", Add(V(0), V(1)), N(1))),
  S_Print(18, <<Lit("constraint1: "), Sym("constraint1")>>),
  S_Constraint(19, Rel("<=", Add(V(0), V(1)), N(0))),
  S_Print(20, <<Lit("constraint2: "), Sym("constraint2")>>),
  S_Cost(21, V(0)),
  S_Print(22, <<Lit("cost1: "), Sym("cost1")>>),
  S_Solve(24, "Solve"),
  S_Print(25, <<Lit("Success: "), Res("is_success")>>),
  S_Print(26, <<Lit("Solution result: "), Res("get_solution_result")>>),
  S_Return(27, 0) >>

good_or_bad_initial_guess_main == <<
  S_Call(13, "MathematicalProgram"),
  S_NewVars(14, 2),
  S_Constraint(15, Rel("==", Add(Pow(V(0), 2), Pow(V(1), 2)), N(100))),
  S_Cost(16, Sub(Pow(V(0), 2), Pow(V(1), 2))),
  S_Call(17, "IpoptSolver"),
  S_Solve(19, "IpoptSolver::Solve"),
  S_Print(20, <<Lit("Without a good initial guess, success? "), Res("is_success")>>),
  S_Print(21, <<Lit("Solution:"), Res("GetSolution")>>),
  S_Solve(25, "IpoptSolver::Solve"),
  S_Print(26, <<Lit("With a good initial guess, success? "), Res("is_success")>>),
  S_Print(27, <<Lit("Solution:"), Res("GetSolution")>>),
  S_Return(28, 0) >>

manually_choosing_a_solver_main == <<
  S_Call(21, "MathematicalProgram"),
  S_NewVars(22, 2),
  S_Print(23, <<Lit("x = "), Sym("x")>>),
  S_Constraint(24, Rel("==", Add(V(0), V(1)), N(1))),
  S_Print(25, <<Lit("constraint1: "), Sym("constraint1")>>),
  S_Constraint(26, Rel("<=", N(0), V(1))),
  S_Print(27, <<Lit("constraint2: "), Sym("constraint2")>>),
  S_Constraint(28, Rel("<=", V(1), N(1))),
  S_Print(29, <<Lit("constraint3: "), Sym("constraint3")>>),
  S_Cost(30, V(0)),
  S_Print(31, <<Lit("cost1: "), Sym("cost1")>>),
  S_Call(33, "IpoptSolver"),
  S_Solve(38, "IpoptSolver::Solve"),
  S_Print(39, <<Res("get_solution_result")>>),
  S_Print(40, <<Lit("x* = "), Res("GetSolution")>>),
  S_Print(41, <<Lit("Solver is "), Res("get_solver_id")>>),
  S_Print(42, <<Lit("Ipopt solver status: "), Res("status"), Lit(", meaning "),
              Res("ConvertStatusToString")>>),
  S_Return(45, 0) >>

\* --------------------------------------- modeling_dynamics_systems mains
\* createPNGFromDotFile(dot_file_name): the statements of its body.
createPNGFromDotFile == <<
  S_Call(22, "gvContext"),
  S_Fopen(23, "fp"),
  S_UseFile(24, "agread", "fp"),
  S_Call(25, "gvLayout"),
  S_Call(26, "gvRender"),
  S_Call(27, "gvFreeLayout"),
  S_Call(28, "agclose"),
  S_Call(29, "gvFreeContext") >>

combinations_of_systems_main ==
  << S_Call(33, "DiagramBuilder"),
     S_Call(35, "AddNamedSystem pendulum"),
     S_Call(44, "AddNamedSystem controller"),
     S_Call(49, "Connect"),
     S_Call(51, "Connect"),
     S_Call(54, "ExportInput"),
     S_Call(57, "LogVectorOutput"),
     S_Call(59, "set_name"),
     S_Call(61, "Build"),
     S_Call(62, "set_name"),
     S_Call(65, "ofstream"),
     S_Call(66, "GetGraphvizString"),
     S_Call(67, "close") >>
  \o createPNGFromDotFile \o
  << S_Call(71, "Simulator"),
     S_Call(72, "get_mutable_context"),
     S_Call(78, "GetMutableSubsystemContext"),
     S_Call(80, "SetFromVector"),
     S_Call(84, "FixValue"),
     S_Initialize(87),
     S_AdvanceTo(88, 40),
     S_Call(91, "FindLog"),
     S_Call(94, "sample_times"),
     S_Call(95, "figure"),
     S_Call(96, "plot"),
     S_Call(97, "plot"),
     S_Call(100, "xlabel"),
     S_Call(101, "ylabel"),
     S_Call(102, "show"),
     S_EndOfMain(105) >>

symbolic_vector_system_main == <<
  S_Call(13, "Variable"),
  S_Call(15, "DiagramBuilder"),
  S_Call(17, "AddSystem SymbolicVectorSystem"),
  S_Call(24, "LogVectorOutput"),
  S_Call(27, "Build"),
  S_Call(30, "CreateDefaultContext"),
  S_Call(31, "SetContinuousState"),
  S_Call(34, "Simulator"),
  S_Initialize(35),
  S_AdvanceTo(36, 10),
  S_Call(39, "FindLog"),
  S_Call(41, "figure"),
  S_Call(43, "plot"),
  S_Call(45, "xlabel"),
  S_Call(46, "ylabel"),
  S_Call(47, "show"),
  S_EndOfMain(48) >>

\* ------------------------------- multibody_kinematics_and_dynamics main
\* A plausible slip: the property is written only after Run has returned.
model_inspector_SetPropertyAfterRun == <<
  S_Call(26, "Delete"),
  S_Call(27, "DeleteAddedControls"),
  S_Call(28, "DiagramBuilder"),
  S_Call(31, "AddMultibodyPlantSceneGraph"),
  S_Call(35, "Parser"),
  S_AddModel(36),
  S_Call(37, "Finalize"),
  S_AddVisualizer(41, "visual"),
  S_AddVisualizer(45, "collision"),
  S_Call(53, "AddSystem JointSliders"),
  S_Call(55, "Build"),
  S_Run(56),
  S_SetProperty(51, "collision", "visible", FALSE),
  S_InspectorEnd(57) >>

model_inspector == <<
  S_Call(26, "Delete"),
  S_Call(27, "DeleteAddedControls"),
  S_Call(28, "DiagramBuilder"),
  S_Call(31, "AddMultibodyPlantSceneGraph"),
  S_Call(35, "Parser"),
  S_AddModel(36),
  S_Call(37, "Finalize"),
  S_AddVisualizer(41, "visual"),
  S_AddVisualizer(45, "collision"),
  S_SetProperty(51, "collision", "visible", FALSE),
  S_Call(53, "AddSystem JointSliders"),
  S_Call(55, "Build"),
  S_Run(56),
  S_InspectorEnd(57) >>

meshcat_sdf_main ==
  << S_CheckArgc(15), S_Call(19, "Meshcat"), S_CallInspector(21) >>
  \o model_inspector \o
  << S_Return(22, 0) >>

\* ------------------------------------------------------------ programs
OptimizationExamples ==
  { "basics", "add_callback", "simple_optimization_problem_feasible",
    "simple_optimization_problem_infeasible", "good_or_bad_initial_guess",
    "manually_choosing_a_solver" }
DynamicsExamples == { "combinations_of_systems", "symbolic_vector_system" }
Programs == OptimizationExamples \cup DynamicsExamples \cup { "meshcat_sdf" }

Code(p) ==
  CASE p = "basics" -> basics_main
    [] p = "add_callback" -> add_callback_main
    [] p = "simple_optimization_problem_feasible" -> simple_optimization_problem_feasible_main
    [] p = "simple_optimization_problem_infeasible" -> simple_optimization_problem_infeasible_main
    [] p = "good_or_bad_initial_guess" -> good_or_bad_initial_guess_main
    [] p = "manually_choosing_a_solver" -> manually_choosing_a_solver_main
    [] p = "combinations_of_systems" -> combinations_of_systems_main
    [] p = "symbolic_vector_system" -> symbolic_vector_system_main
    [] p = "meshcat_sdf" -> meshcat_sdf_main

\* --------------------------------------------------------------- state
VARIABLES
  example,        \* which example program is running
  pc,             \* index of the next statement of Code(example)
  status,         \* "running", "exited", "libfailed", "aborted" or "segfault"
  exitCode,       \* the value main returned (-1 while none)
  argc, argv,     \* the command line; argv[i + 1] is the C string argv[i]
  filename,       \* model_inspector's std::string parameter
  calls,          \* the calls made so far: <<name, source line, argument>>
  out,            \* what was written to std::cout, one entry per statement
  prog,           \* the MathematicalProgram: variables, constraints, costs, callbacks
  result,         \* the MathematicalProgramResult of the last Solve
  solving,        \* a Solve call is in progress
  iter,           \* callback invocations of the Solve in progress
  simTime,        \* the simulator context's time
  initialized,    \* Simulator::Initialize has been called
  fp,             \* the FILE* of createPNGFromDotFile: "unset", "NULL" or "open"
  repoVisible,    \* last value this repository wrote to ("collision", "visible")
  meshcatVisible, \* the value of ("collision", "visible") in the meshcat scene
  running,        \* JointSliders::Run is in progress
  toggles         \* checkbox clicks by the user so far

vars == << example, pc, status, exitCode, argc, argv, filename, calls, out, prog, result,
           solving, iter, simTime, initialized, fp, repoVisible, meshcatVisible, running,
           toggles >>

\* ------------------------------------------------------- C strings, argv
NUL == 0
Alphabet == { 32, 47, 97 }   \* ' ', '/', 'a'
CStrings(n) ==
  { s \o <<NUL>> : s \in UNION { [1..k -> Alphabet] : k \in 0..n } }
ProgramName == << 47, 97, NUL >>
OtherArgument == << 97, NUL >>

\* argv[i] of the C program; argv[argc] is the null pointer.
Argv(i) == argv[i + 1]
IsNullArgv(i) == i >= argc

\* std::string(const char*) strips leading blanks: a plausible slip.
RECURSIVE StdStringTrimmed(_)
StdStringTrimmed(cs) ==
  IF cs[1] = NUL THEN << >>
  ELSE IF cs[1] = 32 THEN StdStringTrimmed(Tail(cs))
  ELSE SubSeq(cs, 1, Len(cs) - 1)

\* std::string(const char*): the characters before the terminating NUL.
RECURSIVE StdString(_)
StdString(cs) ==
  IF cs[1] = NUL THEN << >> ELSE << cs[1] >> \o StdString(Tail(cs))

\* ---------------------------------------------------------- the library
SolutionResults == { "kSolutionFound", "kInfeasibleConstraints", "kIterationLimit" }

\* Statements that are calls into the external library and may not return
\* (an exception nobody catches, a call that blocks for ever).
LibraryOps ==
  { "call", "newvars", "constraint", "cost", "callback", "solve", "initialize",
    "advance", "usefile", "addmodel", "visualizer", "setprop", "run" }

\* ------------------------------------------------------------- helpers
Stmt == Code(example)[pc]
AtStmt(o) == status = "running" /\ ~solving /\ ~running /\ Stmt.op = o
Logged(a) == Append(calls, << Stmt.name, Stmt.line, a >>)

\* A plausible slip: give up as soon as a Solve did not succeed.
NextPcStopOnFailure ==
  IF result \in SolutionResults \ { "kSolutionFound" } THEN Len(Code(example)) ELSE pc + 1

\* Control passes to the next statement whatever the last result was.
NextPc == pc + 1

\* The value streamed for one argument of print.
Value(item) ==
  CASE item[1] = "lit" -> item[2]
    [] item[1] = "sym" -> item
    [] item[1] = "res" ->
         IF item[2] = "is_success" THEN result = "kSolutionFound"
         ELSE IF item[2] = "get_solution_result" THEN result
         ELSE << item[2], result >>

inputs == << example, argc, argv >>
optVars == << prog, result, solving, iter >>
simVars == << simTime, initialized >>
meshVars == << filename, repoVisible, meshcatVisible, running, toggles >>
endVars == << status, exitCode >>

\* ----------------------------------------------------------------- Init
Init ==
  /\ example \in Programs
  /\ pc = 1
  /\ status = "running"
  /\ exitCode = -1
  /\ argc \in 1..MaxArgc
  /\ example # "meshcat_sdf" => argc = 1
  /\ argv \in { << ProgramName >> \o [ i \in 1..(argc - 1) |->
                    IF i = 1 THEN a ELSE OtherArgument ] : a \in CStrings(MaxLen) }
  /\ argc = 1 => argv = << ProgramName >>
  /\ filename = << >>
  /\ calls = << >>
  /\ out = << >>
  /\ prog = [ nvars |-> 0, constraints |-> << >>, costs |-> << >>, callbacks |-> << >> ]
  /\ result = "unset"
  /\ solving = FALSE
  /\ iter = 0
  /\ simTime = 0
  /\ initialized = FALSE
  /\ fp = "unset"
  /\ repoVisible = "unset"
  /\ meshcatVisible = "unset"
  /\ running = FALSE
  /\ toggles = 0

\* -------------------------------------------------------------- actions
\* A library call whose effect no later statement of the example depends on.
LibraryCall ==
  /\ AtStmt("call")
  /\ calls' = Logged(<< >>)
  /\ pc' = NextPc
  /\ UNCHANGED << inputs, optVars, simVars, meshVars, endVars, out, fp >>

\* prog.NewContinuousVariables(n)
NewContinuousVariables ==
  /\ AtStmt("newvars")
  /\ prog' = [ prog EXCEPT !.nvars = @ + Stmt.arg ]
  /\ calls' = Logged(Stmt.arg)
  /\ pc' = NextPc
  /\ UNCHANGED << inputs, result, solving, iter, simVars, meshVars, endVars, out, fp >>

\* prog.AddConstraint(formula)
AddConstraint ==
  /\ AtStmt("constraint")
  /\ prog' = [ prog EXCEPT !.constraints = Append(@, Stmt.arg) ]
  /\ calls' = Logged(Stmt.arg)
  /\ pc' = NextPc
  /\ UNCHANGED << inputs, result, solving, iter, simVars, meshVars, endVars, out, fp >>

\* prog.AddCost(expression)
AddCost ==
  /\ AtStmt("cost")
  /\ prog' = [ prog EXCEPT !.costs = Append(@, Stmt.arg) ]
  /\ calls' = Logged(Stmt.arg)
  /\ pc' = NextPc
  /\ UNCHANGED << inputs, result, solving, iter, simVars, meshVars, endVars, out, fp >>

\* prog.AddVisualizationCallback(update, x)
AddVisualizationCallback ==
  /\ AtStmt("callback")
  /\ prog' = [ prog EXCEPT !.callbacks = Append(@, Stmt.arg) ]
  /\ calls' = Logged(Stmt.arg)
  /\ pc' = NextPc
  /\ UNCHANGED << inputs, result, solving, iter, simVars, meshVars, endVars, out, fp >>

\* print(values...): every value streamed to std::cout, then "\n---\n".
print ==
  /\ AtStmt("print")
  /\ out' = Append(out, [ i \in 1..Len(Stmt.arg) |-> Value(Stmt.arg[i]) ] \o << "\n---\n" >>)
  /\ calls' = Logged(<< >>)
  /\ pc' = NextPc
  /\ UNCHANGED << inputs, optVars, simVars, meshVars, endVars, fp >>

\* Solve(prog, ...) is entered; the program is handed over unchanged.
SolveBegin ==
  /\ AtStmt("solve")
  /\ solving' = TRUE
  /\ iter' = 0
  /\ calls' = Logged(prog)
  /\ UNCHANGED << inputs, prog, result, simVars, meshVars, endVars, out, fp, pc >>

\* update(x): the visualization callback, invoked by the solver while it iterates.
update ==
  /\ status = "running" /\ solving
  /\ Len(prog.callbacks) > 0
  /\ iter < MaxIter
  /\ iter' = iter + 1
  /\ out' = Append(out, << "x = ", << "x.transpose", iter >>, "\n---\n" >>)
  /\ calls' = Append(calls, << "update", 11, << >> >>)
  /\ UNCHANGED << inputs, prog, result, solving, simVars, meshVars, endVars, fp, pc >>

\* Solve returns a result object; which one is the library's decision.
SolveReturn ==
  /\ status = "running" /\ solving
  /\ \E r \in SolutionResults : result' = r
  /\ solving' = FALSE
  /\ pc' = pc + 1
  /\ UNCHANGED << inputs, prog, iter, simVars, meshVars, endVars, out, fp, calls >>

\* simulator.Initialize()
SimulatorInitialize ==
  /\ AtStmt("initialize")
  /\ initialized' = TRUE
  /\ calls' = Logged(simTime)
  /\ pc' = NextPc
  /\ UNCHANGED << inputs, optVars, simTime, meshVars, endVars, out, fp >>

\* simulator.AdvanceTo(boundary_time): the context's time becomes boundary_time.
SimulatorAdvanceTo ==
  /\ AtStmt("advance")
  /\ Stmt.arg >= simTime
  /\ simTime' = Stmt.arg
  /\ calls' = Logged(<< simTime, Stmt.arg >>)
  /\ pc' = NextPc
  /\ UNCHANGED << inputs, optVars, initialized, meshVars, endVars, out, fp >>

\* fp = fopen(name, "r"): a stream, or NULL when the file cannot be opened.
fopen ==
  /\ AtStmt("fopen")
  /\ \E h \in { "NULL", "open" } : fp' = h
  /\ calls' = Logged(<< >>)
  /\ pc' = NextPc
  /\ UNCHANGED << inputs, optVars, simVars, meshVars, endVars, out >>

\* g = agread(fp, 0): fp is not checked; reading from NULL is undefined behaviour.
agread ==
  /\ AtStmt("usefile")
  /\ calls' = Logged(fp)
  /\ \/ /\ fp = "open"
        /\ pc' = NextPc
        /\ UNCHANGED endVars
     \/ /\ fp = "NULL"
        /\ status' = "segfault"
        /\ UNCHANGED << pc, exitCode >>
  /\ UNCHANGED << inputs, optVars, simVars, meshVars, out, fp >>

\* if (argc != 2) { print the usage line }  -- and main goes on either way.
main_check_argc ==
  /\ AtStmt("checkargc")
  /\ out' = IF argc # 2
            THEN Append(out, << "Usage: ", Argv(0), " path-to-sdf-file\n" >>)
            ELSE out
  /\ pc' = NextPc
  /\ UNCHANGED << inputs, optVars, simVars, meshVars, endVars, fp, calls >>

\* model_inspector(meshcat, argv[1]): argv[1] is converted to std::string.  With
\* argc = 1, argv[1] is the null pointer and the conversion is undefined
\* behaviour: std::logic_error nobody catches (abort) or a read through NULL.
call_model_inspector ==
  /\ AtStmt("inspect")
  /\ \/ /\ ~IsNullArgv(1)
        /\ filename' = StdString(Argv(1))
        /\ calls' = Logged(<< >>)
        /\ pc' = NextPc
        /\ UNCHANGED endVars
     \/ /\ IsNullArgv(1)
        /\ \E s \in { "aborted", "segfault" } : status' = s
        /\ UNCHANGED << filename, calls, pc, exitCode >>
  /\ UNCHANGED << inputs, optVars, simVars, repoVisible, meshcatVisible, running, toggles,
                  out, fp >>

\* parser.AddModelFromFile(filename)
AddModelFromFile ==
  /\ AtStmt("addmodel")
  /\ calls' = Logged(filename)
  /\ pc' = NextPc
  /\ UNCHANGED << inputs, optVars, simVars, meshVars, endVars, out, fp >>

\* MeshcatVisualizer<double>::AddToBuilder(..., params)
AddToBuilder ==
  /\ AtStmt("visualizer")
  /\ calls' = Logged(Stmt.arg)
  /\ pc' = NextPc
  /\ UNCHANGED << inputs, optVars, simVars, meshVars, endVars, out, fp >>

\* meshcat->SetProperty(path, property, value)
SetProperty ==
  /\ AtStmt("setprop")
  /\ repoVisible' = IF Stmt.arg[3] THEN "true" ELSE "false"
  /\ meshcatVisible' = IF Stmt.arg[3] THEN "true" ELSE "false"
  /\ calls' = Logged(Stmt.arg)
  /\ pc' = NextPc
  /\ UNCHANGED << inputs, optVars, simVars, filename, running, toggles, endVars, out, fp >>

\* sliders->Run(*diagram) is entered: it blocks until the user stops it.
RunBegin ==
  /\ AtStmt("run")
  /\ running' = TRUE
  /\ calls' = Logged(<< >>)
  /\ UNCHANGED << inputs, optVars, simVars, filename, repoVisible, meshcatVisible, toggles,
                  endVars, out, fp, pc >>

\* While Run blocks, the user may tick the checkbox in the meshcat controls.
UserTogglesCollision ==
  /\ status = "running" /\ running
  /\ toggles < MaxToggle
  /\ toggles' = toggles + 1
  /\ meshcatVisible' = IF meshcatVisible = "true" THEN "false" ELSE "true"
  /\ UNCHANGED << inputs, optVars, simVars, filename, repoVisible, running, endVars, out, fp,
                  pc, calls >>

\* Run returns (the user pressed the stop button).
RunReturn ==
  /\ status = "running" /\ running
  /\ running' = FALSE
  /\ pc' = pc + 1
  /\ UNCHANGED << inputs, optVars, simVars, filename, repoVisible, meshcatVisible, toggles,
                  endVars, out, fp, calls >>

\* The closing brace of model_inspector: control is back in main.
model_inspector_return ==
  /\ AtStmt("inspectend")
  /\ pc' = NextPc
  /\ UNCHANGED << inputs, optVars, simVars, meshVars, endVars, out, fp, calls >>

\* return c; in main
ReturnFromMain ==
  /\ AtStmt("return")
  /\ status' = "exited"
  /\ exitCode' = Stmt.arg
  /\ UNCHANGED << inputs, optVars, simVars, meshVars, out, fp, calls, pc >>

\* The closing brace of a main without return statement: main returns 0.
FallOffMain ==
  /\ AtStmt("end")
  /\ status' = "exited"
  /\ exitCode' = 0
  /\ UNCHANGED << inputs, optVars, simVars, meshVars, out, fp, calls, pc >>

\* A library call throws an exception (nobody catches it) or never returns.
LibraryCallFails ==
  /\ status = "running"
  /\ Stmt.op \in LibraryOps
  /\ status' = "libfailed"
  /\ UNCHANGED << inputs, optVars, simVars, meshVars, exitCode, out, fp, calls, pc >>

\* The steps of the program itself, every library call returning.
Step ==
  \/ LibraryCall \/ NewContinuousVariables \/ AddConstraint \/ AddCost
  \/ AddVisualizationCallback \/ print \/ SolveBegin \/ update \/ SolveReturn
  \/ SimulatorInitialize \/ SimulatorAdvanceTo \/ fopen \/ agread
  \/ main_check_argc \/ call_model_inspector \/ AddModelFromFile \/ AddToBuilder
  \/ SetProperty \/ RunBegin \/ RunReturn \/ model_inspector_return
  \/ ReturnFromMain \/ FallOffMain

Next == Step \/ UserTogglesCollision \/ LibraryCallFails

Spec == Init /\ [][Next]_vars

\* ------------------------------------------------- reading the call log
CallsNamed(n) == { i \in DOMAIN calls : calls[i][1] = n }
IsSolve(i) == calls[i][1] \in { "Solve", "IpoptSolver::Solve" }
SolveCalls == { i \in DOMAIN calls : IsSolve(i) }
IsPrintStmt(s) == s.op = "print"
IsSolveStmt(s) == s.op = "solve"
IsPrintCall(c) == c[1] = "print"
LinesOf(stmts) == [ i \in DOMAIN stmts |-> stmts[i].line ]
LinesOfCalls(cs) == [ i \in DOMAIN cs |-> cs[i][2] ]
IsPrefix(s, u) == Len(s) <= Len(u) /\ SubSeq(u, 1, Len(s)) = s

\* -------------------------------------------------------------------- C1
\* C1: whenever the parser's AddModelFromFile is called, argv[1] exists and the
\* path it is given is character for character the C string argv[1] (the
\* characters before its terminating NUL): nothing trimmed, joined, defaulted
\* or substituted by main or model_inspector.
C1_PathIsArgv1 ==
  \A i \in CallsNamed("AddModelFromFile") :
    /\ ~IsNullArgv(1)
    /\ calls[i][3] \o << NUL >> = Argv(1)

\* The parser has been called with a path that starts with a blank and ends
\* with one, on a command line with a further argument.
C1_Witness ==
  /\ example = "meshcat_sdf"
  /\ argc = 3
  /\ Argv(1) = << 32, 32, NUL >>
  /\ \E i \in CallsNamed("AddModelFromFile") : Len(calls[i][3]) = 2

\* -------------------------------------------------------------------- C2
\* C2: every example program runs to completion: as long as it is running and
\* no library call has failed to return, a next step of the program exists,
\* and when it has stopped without such a failure it has returned 0 from main.
C2_RunsToCompletion ==
  /\ status = "running" => ENABLED Step
  /\ status \notin { "running", "libfailed" } => (status = "exited" /\ exitCode = 0)

C4_SimulatesTenSeconds ==
  (example \in DynamicsExamples /\ status = "exited") =>
    /\ Cardinality(CallsNamed("AdvanceTo")) = 1
    /\ \A i \in CallsNamed("AdvanceTo") :
         /\ calls[i][3] = << 0, 10 >>
         /\ \E j \in CallsNamed("Initialize") : j < i
    /\ simTime = 10

\* -------------------------------------------------------------------- C5
Grid == (-GridMax..GridMax) \X (-GridMax..GridMax)

Satisfies(p, pt) == \A i \in DOMAIN p.constraints : Holds(p.constraints[i], pt)

RECURSIVE TotalCost(_, _)
TotalCost(cs, pt) ==
  IF cs = << >> THEN 0 ELSE Eval(Head(cs), pt) + TotalCost(Tail(cs), pt)

\* The problem statements of the header comments.
manually_choosing_a_solver_documented(pt) ==
  pt[1] + pt[2] = 1 /\ 0 <= pt[2] /\ pt[2] <= 1
manually_choosing_a_solver_objective(pt) == pt[1]
simple_optimization_problem_feasible_documented(pt) ==
  pt[1] + pt[2] = 1 /\ pt[1] <= pt[2]
simple_optimization_problem_feasible_objective(pt) == pt[1] * pt[1] + pt[2] * pt[2]

\* C5: the program handed to Solve in manually_choosing_a_solver and in
\* simple_optimization_problem_feasible has two variables and, at every point
\* of the grid, its constraints hold exactly when the documented ones do and
\* its costs add up to the documented objective.
C5_ProgramIsDocumented ==
  \A i \in SolveCalls :
    /\ example = "manually_choosing_a_solver" =>
         /\ calls[i][3].nvars = 2
         /\ \A pt \in Grid :
              /\ Satisfies(calls[i][3], pt) <=> manually_choosing_a_solver_documented(pt)
              /\ TotalCost(calls[i][3].costs, pt) = manually_choosing_a_solver_objective(pt)
    /\ example = "simple_optimization_problem_feasible" =>
         /\ calls[i][3].nvars = 2
         /\ \A pt \in Grid :
              /\ Satisfies(calls[i][3], pt)
                   <=> simple_optimization_problem_feasible_documented(pt)
              /\ TotalCost(calls[i][3].costs, pt)
                   = simple_optimization_problem_feasible_objective(pt)

\* Solve has been called in simple_optimization_problem_feasible with a program
\* that some grid points satisfy and others, on the line x0 + x1 = 1, do not.
C5_Witness ==
  /\ example = "simple_optimization_problem_feasible"
  /\ \E i \in SolveCalls :
       /\ Satisfies(calls[i][3], << 0, 1 >>)
       /\ ~Satisfies(calls[i][3], << 1, 0 >>)
       /\ Len(calls[i][3].constraints) = 2
       /\ Len(calls[i][3].costs) = 1

\* -------------------------------------------------------------------- C6
\* C6: from the start of JointSliders::Run onward the value this repository
\* last wrote to ("collision", "visible") is false: it was written after both
\* visualizers were added and before Run began, and the repository never
\* writes true.
C6_CollisionDisabledAtStart ==
  (example = "meshcat_sdf" /\ CallsNamed("Run") # { }) =>
    /\ repoVisible = "false"
    /\ \A s \in CallsNamed("SetProperty") : calls[s][3][3] = FALSE
    /\ \E s \in CallsNamed("SetProperty") :
         /\ calls[s][3] = << "collision", "visible", FALSE >>
         /\ \E v \in CallsNamed("AddToBuilder") : calls[v][3] = "visual" /\ v < s
         /\ \E c \in CallsNamed("AddToBuilder") : calls[c][3] = "collision" /\ c < s
         /\ \A r \in CallsNamed("Run") : s < r

\* Run is in progress and the user has ticked the checkbox: the scene shows
\* the collision geometry although the repository last wrote false.
C6_Witness ==
  /\ example = "meshcat_sdf"
  /\ running
  /\ meshcatVisible = "true"
  /\ repoVisible = "false"

====
